---- MODULE Spec2Model ----
(***************************************************************************)
(* The TradingView data service of crypto-grid-trader:                     *)
(*   - handleCaptchaLogin (tradingview-service/src/auth.js), the browser   *)
(*     login, in its two definitions;                                      *)
(*   - loginToTradingView, the startup login and the WebSocket message     *)
(*     handler (tradingview-service/src/index.js).                         *)
(* Node runs one callback at a time: an action is one event (a message, a  *)
(* reply of the provider or of the browser driver) with the code it runs:  *)
(* from the resumption of an async function to its next await, and the     *)
(* promise callbacks that a settlement in it releases.                     *)
(***************************************************************************)
EXTENDS Integers, Sequences, FiniteSets, TLC

\* Bounds of the model.
MaxMsgs == 2
MaxPolls == 1

\* Program constants.
maxWaitTime == 300000
PollSleep == 2000
RedirectSleep == 3000

VARIABLES authDef, credsSet, authenticatedClient, tradingViewClient, login, cap, msg

vars == <<authDef, credsSet, authenticatedClient, tradingViewClient, login, cap, msg>>

LoginIds == 0..MaxMsgs
MsgIds == 1..MaxMsgs

(***************************************************************************)
(* Strings: an error message is a sequence of characters.                  *)
(***************************************************************************)
UpperCase == <<"A", "B", "C", "H", "O", "P", "R", "T">>
LowerCase == <<"a", "b", "c", "h", "o", "p", "r", "t">>

LowerChar(c) ==
  IF \E k \in 1..Len(UpperCase) : UpperCase[k] = c
  THEN LowerCase[CHOOSE k \in 1..Len(UpperCase) : UpperCase[k] = c]
  ELSE c

toLowerCase(s) == [k \in 1..Len(s) |-> LowerChar(s[k])]

includes(s, t) ==
  \E k \in 0..(Len(s) - Len(t)) : SubSeq(s, k + 1, k + Len(t)) = t

StrCaptcha == <<"c", "a", "p", "t", "c", "h", "a">>
StrRobot == <<"r", "o", "b", "o", "t">>

\* Rejection messages of the provider login.
MsgRobot == <<"R", "o", "b", "o", "t", " ", "d", "e", "t", "e", "c", "t", "e", "d">>
MsgBot == <<"b", "o", "t", " ", "d", "e", "t", "e", "c", "t", "e", "d">>

(***************************************************************************)
(* Errors.  hasMessage is FALSE for a rejection value that carries no      *)
(* message text (error.message is undefined).                              *)
(***************************************************************************)
Err(k, m, names) == [kind |-> k, hasMessage |-> TRUE, message |-> m, cookies |-> names]
NoError == [kind |-> "none", hasMessage |-> FALSE, message |-> <<>>, cookies |-> {}]
Rejected(m) == Err("ProviderRejected", m, {})
RejectedNoMessage ==
  [kind |-> "ProviderRejected", hasMessage |-> FALSE, message |-> <<>>, cookies |-> {}]

(***************************************************************************)
(* The controlled browser: the page it shows and its cookies.              *)
(***************************************************************************)
TvOrigin == "https://www.tradingview.com/"
SignInUrl == [origin |-> TvOrigin, path |-> <<"accounts", "signin">>]
MainUrl == [origin |-> TvOrigin, path |-> <<"chart">>]
OtherUrl == [origin |-> "https://accounts.google.com/", path |-> <<"o", "oauth2">>]

\* currentUrl.includes('/accounts/signin/')
includesSignInPath(u) ==
  \E k \in 1..(Len(u.path) - 1) : u.path[k] = "accounts" /\ u.path[k + 1] = "signin"
\* currentUrl.includes('signin')
includesSignIn(u) == \E k \in 1..Len(u.path) : u.path[k] = "signin"
\* currentUrl.startsWith('https://www.tradingview.com/')
startsWithTv(u) == u.origin = TvOrigin

Cookie(n, v) == [name |-> n, value |-> v]
undefined == [name |-> "undefined", value |-> "undefined"]
\* cookies.find(cookie => cookie.name === n)
find(cookies, n) ==
  IF \E c \in cookies : c.name = n
  THEN CHOOSE c \in cookies : c.name = n
  ELSE undefined

SessionIdCookies == {Cookie("sessionid", "abc"), Cookie("sessionid", "")}
SignCookies == {Cookie("sessionid_sign", "xyz"), Cookie("sessionid_sign", "")}
AllJars ==
  {{}} \cup {{c} : c \in SessionIdCookies \cup SignCookies}
       \cup {{c, d} : c \in SessionIdCookies, d \in SignCookies}
AllPages == {SignInUrl, MainUrl, OtherUrl}

\* What the browser and the driver can do in one run: the pages and cookie
\* jars the browser can show, and whether driver calls can throw.
AllStages == {"build", "navigate", "consent", "email", "fill", "submit", "poll", "quit"}
AuthWorld ==
  [shows |-> [page : AllPages, jar : AllJars], faults |-> AllStages, causes |-> {}]

\* Whether the driver call of stage s throws.
Fails(W, s) == IF s \in W.faults THEN {FALSE, TRUE} ELSE {FALSE}

(***************************************************************************)
(* handleCaptchaLogin: one record per call.                                *)
(***************************************************************************)
NoCred == [session |-> "none", signature |-> "none"]
NoUrl == [origin |-> "", path |-> <<>>]
\* currentUrl and cookies, the constants of one loop cycle: what the cycle has
\* read, and which cycle it is (0: no cycle is running).
NotRead == [cycle |-> 0, page |-> NoUrl, jar |-> {}]
\* driver: the variable `driver` is set and the browser not yet quit;
\* page, jar: what the browser shows now; elapsed: Date.now() - startTime;
\* steps: the steps of the sign-in flow the call has taken, in order.
IdleCap ==
  [pc |-> "idle", driver |-> FALSE, built |-> 0, quits |-> 0, quitThrew |-> FALSE,
   consent |-> FALSE, page |-> SignInUrl, jar |-> {}, seen |-> NotRead,
   elapsed |-> 0, polls |-> 0, outcome |-> "none", cred |-> NoCred, err |-> NoError,
   steps |-> <<>>]

\* A flow that goes from the credential fields to the polling loop.
NextStageSkippingSubmit(stage) ==
  CASE stage = "build" -> "navigate"
    [] stage = "navigate" -> "consent"
    [] stage = "consent" -> "email"
    [] stage = "email" -> "fill"
    [] stage = "fill" -> "poll"
    [] stage = "submit" -> "poll"

\* The statement that follows each stage in the try block (lines 169-241).
NextStage(stage) ==
  CASE stage = "build" -> "navigate"
    [] stage = "navigate" -> "consent"
    [] stage = "consent" -> "email"
    [] stage = "email" -> "fill"
    [] stage = "fill" -> "submit"
    [] stage = "submit" -> "poll"

\* The call has taken the step named.
Took(c, step) ==
  IF c.steps # <<>> /\ c.steps[Len(c.steps)] = step THEN c
  ELSE [c EXCEPT !.steps = Append(@, step)]

\* The call starts: everything up to the first await, the driver build.
StartCap == [IdleCap EXCEPT !.pc = "build"]

\* The call is over: its promise is settled with outcome, cred and err, and
\* its locals (the page and cookies it last read, its clock) are gone.
Settled(c) ==
  [c EXCEPT !.pc = "done", !.page = IdleCap.page, !.jar = IdleCap.jar,
            !.seen = NotRead, !.elapsed = 0, !.polls = 0]

\* Throw without the finally block: the call ends with the browser still up.
ThrowNoFinally(c, e) == Settled([c EXCEPT !.outcome = "error", !.err = e])

\* An exception inside the try block: catch rethrows it, finally runs.
\* finally: if (driver) { try { await driver.quit() } catch {} }
Throw(c, e) ==
  IF c.driver
  THEN [c EXCEPT !.pc = "quit", !.outcome = "error", !.err = e]
  ELSE Settled([c EXCEPT !.outcome = "error", !.err = e])

\* return { session, signature }: finally runs before the promise resolves.
Return(c, s, g) ==
  [c EXCEPT !.pc = "quit", !.outcome = "session",
            !.cred = [session |-> s, signature |-> g]]

(***************************************************************************)
(* loginToTradingView (index.js 133-195): one record per call.  Call 0 is  *)
(* the startup login (lines 198-206), call m the one message m makes.      *)
(***************************************************************************)
NoClient == [by |-> -1, via |-> "none", token |-> "none", signature |-> "none"]
\* new TradingView.Client({ log: true }), logged in by client.login
DirectClient(i) == [by |-> i, via |-> "direct", token |-> "none", signature |-> "none"]

\* new TradingView.Client({ log: true }) whose login has not resolved.
NewClient(i) == [by |-> i, via |-> "unauthenticated", token |-> "none", signature |-> "none"]

\* let tradingViewClient = null (part_001), and new TradingViewClient(...)
\* with c its field `client`.
null == [set |-> FALSE, client |-> NoClient]
Wrapper(c) == [set |-> TRUE, client |-> c]

\* A client built with the two credentials exchanged.
BrowserClientSwapped(i, credentials) ==
  [by |-> i, via |-> "browser", token |-> credentials.signature,
   signature |-> credentials.session]

\* new TradingView.Client({ token: credentials.session, signature: credentials.signature })
BrowserClient(i, credentials) ==
  [by |-> i, via |-> "browser", token |-> credentials.session,
   signature |-> credentials.signature]

\* cause: what client.login rejected with; browsers: the calls of
\* handleCaptchaLogin this call has made.
IdleLogin ==
  [pc |-> "idle", client |-> NoClient, cause |-> NoError, err |-> NoError,
   browsers |-> 0]

\* process.env.TRADINGVIEW_USERNAME and _PASSWORD (lines 126-127): absent,
\* empty, or a text.
Absent == [defined |-> FALSE, text |-> ""]
EnvValues == {Absent, [defined |-> TRUE, text |-> ""], [defined |-> TRUE, text |-> "secret"]}
\* !v
Not(v) == ~v.defined \/ v.text = ""
\* credsSet: the test !USERNAME || !PASSWORD of line 143 is false.
Provided(username, password) == ~(Not(username) \/ Not(password))

\* A call that goes to the provider without the test of the credentials.
StartLoginUnchecked == [IdleLogin EXCEPT !.pc = "provider"]

\* if (!USERNAME || !PASSWORD) throw ...; otherwise client.login is called
\* and the promise is pending.
StartLogin ==
  IF credsSet
  THEN [IdleLogin EXCEPT !.pc = "provider"]
  ELSE [IdleLogin EXCEPT !.pc = "rejected", !.err = Err("NotProvided", <<>>, {})]

\* error.message.toLowerCase().includes('captcha') || ...includes('robot')
isChallenge(message) ==
  \/ includes(toLowerCase(message), StrCaptcha)
  \/ includes(toLowerCase(message), StrRobot)

\* An accepted login that falls through to the browser login all the same.
OnLoginAcceptedFallback(l, client) ==
  [l EXCEPT !.pc = "captcha", !.client = client, !.browsers = @ + 1]

\* .then(() => { authenticatedClient = client; resolve(client) }), lines 156-160
OnLoginAccepted(l, client) == [l EXCEPT !.pc = "resolved", !.client = client]

\* A .catch callback that counts two browser logins for one challenge.
OnLoginRejectedTwice(l, error) ==
  IF ~error.hasMessage
  THEN [l EXCEPT !.pc = "hung", !.cause = error]
  ELSE IF isChallenge(error.message)
       THEN [l EXCEPT !.pc = "captcha", !.cause = error, !.browsers = @ + 2]
       ELSE [l EXCEPT !.pc = "rejected", !.cause = error, !.err = error]

\* What the .catch callback of client.login does with the rejection `error`
\* (lines 161-189): the next state of the call, and whether the browser
\* login is started.
OnLoginRejected(l, error) ==
  IF ~error.hasMessage
  THEN \* error.message.toLowerCase() throws inside the callback: the promise
       \* of loginToTradingView is neither resolved nor rejected.
       [l EXCEPT !.pc = "hung", !.cause = error]
  ELSE IF isChallenge(error.message)
       THEN [l EXCEPT !.pc = "captcha", !.cause = error, !.browsers = @ + 1]
       ELSE [l EXCEPT !.pc = "rejected", !.cause = error, !.err = error]

\* handleCaptchaLogin(...).then((credentials) => { ... }), lines 170-181
CaptchaThen(i, l, credentials) ==
  [l EXCEPT !.pc = "resolved", !.client = BrowserClient(i, credentials)]

\* .catch((captchaError) => { reject(captchaError) }), lines 182-185
CaptchaCatch(l, captchaError) == [l EXCEPT !.pc = "rejected", !.err = captchaError]

\* The call of handleCaptchaLogin with record c has settled: the callbacks of
\* lines 170-185 run.
OnCaptchaSettled(i, l, c) ==
  IF c.outcome = "session" THEN CaptchaThen(i, l, c.cred) ELSE CaptchaCatch(l, c.err)

(***************************************************************************)
(* ws.on('message') (index.js 213-258): one record per message.            *)
(***************************************************************************)
\* chart.periods as the provider leaves it: undefined, or the bars delivered.
Bar == [time |-> "t1", close |-> "c1"]
NoPeriods == [defined |-> FALSE, periods |-> <<>>]
Charts == {NoPeriods, [defined |-> TRUE, periods |-> <<Bar>>]}

\* No market_update envelope.
NoData == [type |-> "none", symbol |-> "none", interval |-> "none", prices |-> <<>>]

\* symbol, interval: the instrument and the timeframe the message asks for;
\* names: the symbol field of the envelope sent; data: the market_update
\* envelope sent; fetched, chart: how the provider call ended, and the chart
\* it filled; sent: the envelopes ws.send has put on the connection; used:
\* the client handed to getChartData; had: the current client when the
\* message arrived; during: the login calls that were pending then.
\* conn: the connection of the message, "open", or closed with a ws.send that
\* drops what it is given ("silent") or throws ("throws"); lost: the envelope
\* handed to a closed connection; unhandled: the handler's promise was
\* rejected (the process-level listener of lines 274-276 logs it).
IdleMsg == [pc |-> "none", type |-> "none", symbol |-> "none", interval |-> "none",
            reply |-> "none", names |-> "none", data |-> NoData, fetched |-> "none",
            chart |-> NoPeriods, sent |-> 0, err |-> NoError, used |-> NoClient,
            had |-> NoClient, during |-> {}, conn |-> "open", lost |-> "none",
            unhandled |-> FALSE]

\* const { type, symbol, interval } = message: message m asks for its own
\* instrument.
SymbolOf(m) == IF m % 2 = 1 THEN "BINANCE:BTCUSDT" ELSE "BINANCE:ETHUSDT"
\* ... and for its own timeframe.
IntervalOf(m) == IF m % 2 = 1 THEN "1h" ELSE "15"

Pending(l) == l.pc \in {"provider", "captcha"}

\* A handler that logs in whether or not a client is at hand.
NeedsLoginAlways(client) == TRUE

\* if (!authenticatedClient), line 221
NeedsLogin(client) == client = NoClient

MsgTypes == {"get_indicators", "heartbeat", "unknown", "malformed"}

\* A handler that ends without sending anything.
SendNothing(h, kind, e) == [h EXCEPT !.pc = "done"]

\* A handler that stays suspended when its connection is closed.
SendClosedStuck(h, kind, e) == h

\* ws.send on a closed connection.  The envelope is dropped, or the call
\* throws: a throw inside the switch goes to the catch blocks, whose own
\* ws.send throws again, and the handler's promise is rejected.  Either way
\* the handler ends and nothing is delivered.
SendClosed(h, kind, e) ==
  [h EXCEPT !.pc = "done", !.lost = kind, !.err = e,
            !.unhandled = (h.conn = "throws")]

\* ws.send of an envelope ends the handler.
Send(h, kind, e) ==
  IF h.conn = "open"
  THEN [h EXCEPT !.pc = "done", !.reply = kind, !.err = e, !.sent = @ + 1]
  ELSE SendClosed(h, kind, e)

\* ws.send of an envelope with a symbol field (lines 93-95, 232-236).
SendFor(h, kind, e) ==
  IF h.conn = "open" THEN [Send(h, kind, e) EXCEPT !.names = h.symbol]
  ELSE Send(h, kind, e)

\* An envelope that carries the timeframe where the instrument belongs.
getChartDataSwapped(symbol, interval, chart) ==
  [type |-> "market_update", symbol |-> interval, interval |-> symbol,
   prices |-> IF chart.defined THEN chart.periods ELSE <<>>]

\* The envelope getChartData resolves with (index.js 93-104):
\* { type: 'market_update', symbol, interval, prices: chart.periods || [] };
\* part_001 83-86 sends the same fields, the bars under the name periods.
getChartData(symbol, interval, chart) ==
  [type |-> "market_update", symbol |-> symbol, interval |-> interval,
   prices |-> IF chart.defined THEN chart.periods ELSE <<>>]

\* ws.send(JSON.stringify(data)), line 229.
SendData(h, data) ==
  IF h.conn = "open"
  THEN [Send(h, "data", NoError) EXCEPT !.names = data.symbol, !.data = data]
  ELSE Send(h, "data", NoError)

\* An inner catch that answers like the outer one, without the symbol.
OnFetchErrorPlain(h, error) == Send(h, "error", error)

\* catch (error) of lines 230-237:
\* { type: 'error', symbol: symbol, message: error.toString() }
OnFetchError(h, error) == SendFor(h, "error", error)

\* switch(type), lines 225-250, with `client` the value of authenticatedClient.
Dispatch(h, client) ==
  CASE h.type = "get_indicators" -> [h EXCEPT !.pc = "awaitFetch", !.used = client]
    [] h.type = "heartbeat" -> Send(h, "heartbeat", NoError)
    [] OTHER -> Send(h, "error", Err("UnknownRequestType", <<>>, {}))

\* A handler that resumes with the client it held before the await.
ResumeStale(h, l) ==
  IF h.pc # "awaitLogin" THEN h
  ELSE IF l.pc = "resolved" THEN Dispatch(h, h.used)
  ELSE IF l.pc = "rejected" THEN Send(h, "error", l.err)
  ELSE h

\* A handler that calls loginToTradingView again when its call is rejected.
ResumeRetry(h, l) ==
  IF h.pc # "awaitLogin" THEN h
  ELSE IF l.pc = "resolved" THEN Dispatch(h, l.client)
  ELSE h

\* The await of line 222, on a login call whose record is now l: a resolved
\* promise resumes the handler (authenticatedClient = the call's client, then
\* the switch), a rejected one takes it to the outer catch (lines 251-257);
\* on a pending promise the handler stays suspended.
Resume(h, l) ==
  IF h.pc # "awaitLogin" THEN h
  ELSE IF l.pc = "resolved" THEN Dispatch(h, l.client)
  ELSE IF l.pc = "rejected" THEN Send(h, "error", l.err)
  ELSE h

\* A settlement that drops the current client when the call is rejected.
SettlesClearing(i, l) ==
  /\ login' = [login EXCEPT ![i] = l]
  /\ authenticatedClient' =
       IF l.pc = "resolved" THEN l.client
       ELSE IF l.pc = "rejected" THEN NoClient ELSE authenticatedClient
  /\ msg' = [m \in MsgIds |-> IF m = i THEN Resume(msg[m], l) ELSE msg[m]]

\* A step has taken login call i to the record l.  The promise callbacks that
\* follow a settlement run before any other event is handled: the client is
\* stored (lines 158, 179, 222) and the handler of message i, the only code
\* that awaits call i, resumes.
Settles(i, l) ==
  /\ login' = [login EXCEPT ![i] = l]
  /\ authenticatedClient' =
       IF l.pc = "resolved" THEN l.client ELSE authenticatedClient
  /\ msg' = [m \in MsgIds |-> IF m = i THEN Resume(msg[m], l) ELSE msg[m]]

\* A step of handleCaptchaLogin call i has led to cap'[i]: if the call is
\* over, its caller's callbacks run.
CallerOf(i) ==
  IF cap'[i].pc = "done" /\ login[i].pc = "captcha"
  THEN IF tradingViewClient.set
       THEN \* TradingViewClient.login, tradingview-client.js 25-37:
            \* this.client = new TradingView.Client({ token, signature }),
            \* or the error is thrown on to initializeTradingViewClient.
            LET l == OnCaptchaSettled(i, login[i], cap'[i])
            IN /\ login' = [login EXCEPT ![i] = l]
               /\ tradingViewClient' =
                    IF l.pc = "resolved" THEN Wrapper(l.client) ELSE tradingViewClient
               /\ msg' = [m \in MsgIds |-> IF m = i THEN Resume(msg[m], l) ELSE msg[m]]
               /\ UNCHANGED authenticatedClient
       ELSE /\ Settles(i, OnCaptchaSettled(i, login[i], cap'[i]))
            /\ UNCHANGED tradingViewClient
  ELSE UNCHANGED <<authenticatedClient, tradingViewClient, login, msg>>

(***************************************************************************)
(* The steps of handleCaptchaLogin call i.                                 *)
(***************************************************************************)
\* driver = await new Builder()...build()
CapBuild(i, W) ==
  /\ cap[i].pc = "build"
  /\ \E fails \in Fails(W, "build") :
       cap' = [cap EXCEPT ![i] =
                 IF fails THEN Throw(@, Err("BuildFailed", <<>>, {}))
                 ELSE Took([@ EXCEPT !.pc = NextStage("build"), !.driver = TRUE,
                                     !.built = @ + 1], "Launch")]
  /\ CallerOf(i)
  /\ UNCHANGED <<authDef, credsSet>>

\* await driver.get(signin); await driver.sleep(3000)
CapNavigate(i, W) ==
  /\ cap[i].pc = "navigate"
  /\ \E fails \in Fails(W, "navigate") :
       cap' = [cap EXCEPT ![i] =
                 IF fails THEN Throw(@, Err("WebDriverError", <<>>, {}))
                 ELSE [@ EXCEPT !.pc = NextStage("navigate"), !.page = SignInUrl]]
  /\ UNCHANGED <<authDef, credsSet, tradingViewClient, authenticatedClient, login, msg>>

\* A consent step without its try/catch: a failure ends the flow.
CapConsentThrowing(i, W) ==
  /\ cap[i].pc = "consent"
  /\ \E fails \in Fails(W, "consent") :
       cap' = [cap EXCEPT ![i] =
                 IF fails THEN Throw(@, Err("NotFound", <<>>, {}))
                 ELSE Took([@ EXCEPT !.pc = NextStage("consent"), !.consent = TRUE],
                           "DismissConsent")]
  /\ UNCHANGED <<authDef, credsSet, tradingViewClient, authenticatedClient, login, msg>>

\* The cookie-consent button, inside its own try/catch: never an error.
CapConsent(i, W) ==
  /\ cap[i].pc = "consent"
  /\ \E fails \in Fails(W, "consent") :
       cap' = [cap EXCEPT ![i] =
                 Took([@ EXCEPT !.pc = NextStage("consent"), !.consent = ~fails],
                      "DismissConsent")]
  /\ UNCHANGED <<authDef, credsSet, tradingViewClient, authenticatedClient, login, msg>>

\* An Email step that goes on to the credential fields when the button is
\* not found.
CapEmailContinuing(i, W) ==
  /\ cap[i].pc = "email"
  /\ \E fails \in Fails(W, "email") :
       cap' = [cap EXCEPT ![i] =
                 IF fails
                 THEN [@ EXCEPT !.pc = NextStage("email"), !.err = Err("NotFound", <<>>, {})]
                 ELSE Took([@ EXCEPT !.pc = NextStage("email")], "SelectEmailFlow")]
  /\ UNCHANGED <<authDef, credsSet, tradingViewClient, authenticatedClient, login, msg>>

\* The Email button: driver.wait(until.elementLocated(...), 15000), click.
CapEmail(i, W) ==
  /\ cap[i].pc = "email"
  /\ \E fails \in Fails(W, "email") :
       cap' = [cap EXCEPT ![i] =
                 IF fails THEN Throw(@, Err("NotFound", <<>>, {}))
                 ELSE Took([@ EXCEPT !.pc = NextStage("email")], "SelectEmailFlow")]
  /\ UNCHANGED <<authDef, credsSet, tradingViewClient, authenticatedClient, login, msg>>

\* Username and password fields: wait, scroll into view, clear, sendKeys.
CapFill(i, W) ==
  /\ cap[i].pc = "fill"
  /\ \E fails \in Fails(W, "fill") :
       cap' = [cap EXCEPT ![i] =
                 IF fails THEN Throw(@, Err("NotFound", <<>>, {}))
                 ELSE Took([@ EXCEPT !.pc = NextStage("fill")], "FillCredentials")]
  /\ UNCHANGED <<authDef, credsSet, tradingViewClient, authenticatedClient, login, msg>>

\* The sign-in button is clicked; startTime = Date.now().  The browser
\* shows whatever the click led to.
CapSubmit(i, W) ==
  /\ cap[i].pc = "submit"
  /\ \E fails \in Fails(W, "submit"), b \in W.shows :
       cap' = [cap EXCEPT ![i] =
                 IF fails THEN Throw(@, Err("NotFound", <<>>, {}))
                 ELSE Took([@ EXCEPT !.pc = NextStage("submit"), !.elapsed = 0,
                                     !.page = b.page, !.jar = b.jar], "Submit")]
  /\ UNCHANGED <<authDef, credsSet, tradingViewClient, authenticatedClient, login, msg>>

Max(a, b) == IF a >= b THEN a ELSE b

\* await driver.sleep(ms): at least ms pass, and the browser moves on in the
\* meantime.  The sleep takes ms, or the clock runs on to the deadline (the
\* cycles in between see nothing new); past MaxPolls cycles it does.
Sleep(c, ms, W) ==
  {[c EXCEPT !.elapsed = e, !.page = b.page, !.jar = b.jar] :
     e \in {x \in {c.elapsed + ms, Max(c.elapsed + ms, maxWaitTime)} :
              x = c.elapsed + ms => c.polls <= MaxPolls},
     b \in W.shows}

\* A loop test that never sees the deadline.
InTimeAlways(c) == TRUE

\* while (... (Date.now() - startTime) < maxWaitTime)
InTime(c) == c.elapsed < maxWaitTime

\* Second definition, lines 246-265:
\* (isMainPage || isNotSignInPage) && sessionidCookie && sessionidSignCookie
Success2(url, cookies) ==
  LET isMainPage == startsWithTv(url) /\ ~includesSignIn(url)
      isNotSignInPage == ~includesSignInPath(url)
  IN /\ isMainPage \/ isNotSignInPage
     /\ find(cookies, "sessionid") # undefined
     /\ find(cookies, "sessionid_sign") # undefined

\* First definition, line 103.
Redirected1(url) == ~includesSignInPath(url) /\ startsWithTv(url)
\* First definition, line 116.
Success1(cookies) ==
  /\ find(cookies, "sessionid") # undefined
  /\ find(cookies, "sessionid_sign") # undefined

\* A map that takes the values of the cookies.
cookieValues(cookies) == {c.value : c \in cookies}

\* finalCookies.map(c => c.name)
cookieNames(cookies) == {c.name : c \in cookies}

\* The cycle ends: await driver.sleep(2000), and its constants are gone.
NextCycle(c, W) == {[x EXCEPT !.seen = NotRead] : x \in Sleep(c, PollSleep, W)}

\* One cycle of the second definition's loop (lines 241-275), or the timeout
\* after it (lines 277-280).
PollCycle2(c, W) ==
  IF InTime(c)
  THEN LET o == [c EXCEPT !.polls = @ + 1,
                          !.seen = [cycle |-> c.polls + 1, page |-> c.page, jar |-> c.jar]]
       IN IF Success2(o.seen.page, o.seen.jar)
          THEN {Return(o, find(o.seen.jar, "sessionid").value,
                          find(o.seen.jar, "sessionid_sign").value)}
          ELSE NextCycle(o, W)
  ELSE {Throw(c, Err("LoginTimeout", <<>>, cookieNames(c.jar)))}

\* The first definition's loop (lines 98-127) reads the URL, and reads the
\* cookies 3 s later if the URL is off the sign-in page.
PollUrl1(c, W) ==
  IF InTime(c)
  THEN LET o == [c EXCEPT !.polls = @ + 1,
                          !.seen = [cycle |-> c.polls + 1, page |-> c.page, jar |-> {}]]
       IN IF Redirected1(o.seen.page)
          THEN {[o EXCEPT !.pc = "cookies", !.elapsed = @ + RedirectSleep,
                          !.page = b.page, !.jar = b.jar] : b \in W.shows}
          ELSE NextCycle(o, W)
  ELSE {Throw(c, Err("LoginTimeout", <<>>, {}))}

PollCookies1(c, W) ==
  LET o == [c EXCEPT !.seen.jar = c.jar]
  IN IF Success1(o.seen.jar)
     THEN {Return(o, find(o.seen.jar, "sessionid").value,
                     find(o.seen.jar, "sessionid_sign").value)}
     ELSE {[x EXCEPT !.pc = "poll"] : x \in NextCycle(o, W)}

CapPoll(i, W) ==
  /\ cap[i].pc = "poll"
  /\ \E fails \in Fails(W, "poll") :
       IF fails
       THEN cap' = [cap EXCEPT ![i] =
                      Throw(Took(@, "PollForSession"), Err("WebDriverError", <<>>, {}))]
       ELSE \E n \in (IF authDef = 2 THEN PollCycle2(Took(cap[i], "PollForSession"), W)
                      ELSE PollUrl1(Took(cap[i], "PollForSession"), W)) :
              cap' = [cap EXCEPT ![i] = n]
  /\ UNCHANGED <<authDef, credsSet, tradingViewClient, authenticatedClient, login, msg>>

CapCookies(i, W) ==
  /\ cap[i].pc = "cookies"
  /\ authDef = 1
  /\ \E n \in PollCookies1(cap[i], W) : cap' = [cap EXCEPT ![i] = n]
  /\ UNCHANGED <<authDef, credsSet, tradingViewClient, authenticatedClient, login, msg>>

\* A finally block without the try/catch around driver.quit(): the exception
\* of quit replaces the outcome of the call.
CapQuitThrowing(i, W) ==
  /\ cap[i].pc = "quit"
  /\ \E fails \in Fails(W, "quit") :
       cap' = [cap EXCEPT ![i] =
                 Settled(Took([@ EXCEPT !.driver = FALSE, !.quits = @ + 1,
                                        !.quitThrew = fails,
                                        !.outcome = IF fails THEN "error" ELSE @,
                                        !.cred = IF fails THEN NoCred ELSE @,
                                        !.err = IF fails
                                                THEN Err("WebDriverError", <<>>, {})
                                                ELSE @], "Teardown"))]
  /\ CallerOf(i)
  /\ UNCHANGED <<authDef, credsSet>>

\* finally { if (driver) { try { await driver.quit() } catch (e) {} } }, and
\* the promise of the call settles.
CapQuit(i, W) ==
  /\ cap[i].pc = "quit"
  /\ \E fails \in Fails(W, "quit") :
       cap' = [cap EXCEPT ![i] =
                 Settled(Took([@ EXCEPT !.driver = FALSE, !.quits = @ + 1,
                                        !.quitThrew = fails], "Teardown"))]
  /\ CallerOf(i)
  /\ UNCHANGED <<authDef, credsSet>>

CapStep(i, W) ==
  \/ CapBuild(i, W)
  \/ CapNavigate(i, W)
  \/ CapConsent(i, W)
  \/ CapEmail(i, W)
  \/ CapFill(i, W)
  \/ CapSubmit(i, W)
  \/ CapPoll(i, W)
  \/ CapQuit(i, W)

(***************************************************************************)
(* The events of the service.                                              *)
(***************************************************************************)
\* client.login resolves.
ProviderAccept(i) ==
  /\ login[i].pc = "provider"
  /\ LET l == OnLoginAccepted(login[i], DirectClient(i))
     IN /\ login' = [login EXCEPT ![i] = l]
        /\ authenticatedClient' = DirectClient(i)
        /\ msg' = [m \in MsgIds |-> IF m = i THEN Resume(msg[m], l) ELSE msg[m]]
  /\ UNCHANGED <<authDef, credsSet, tradingViewClient, cap>>

\* client.login rejects with one of the causes the provider can give.
ProviderReject(i, W) ==
  /\ login[i].pc = "provider"
  /\ \E error \in W.causes :
       LET l == OnLoginRejected(login[i], error)
       IN /\ Settles(i, l)
          /\ cap' = [cap EXCEPT ![i] = IF l.pc = "captcha" THEN StartCap ELSE @]
  /\ UNCHANGED <<authDef, credsSet, tradingViewClient>>

\* A handler that logs in before it parses the message.
ReceiveLoginFirst(m) ==
  /\ msg[m].pc = "none"
  /\ m > 1 => msg[m - 1].pc # "none"
  /\ \E t \in MsgTypes :
       LET h == [msg[m] EXCEPT !.type = t, !.pc = "awaitLogin"]
       IN /\ login' = [login EXCEPT ![m] = StartLogin]
          /\ msg' = [msg EXCEPT ![m] = Resume(h, StartLogin)]
  /\ UNCHANGED <<authDef, credsSet, tradingViewClient, authenticatedClient, cap>>

\* A message arrives: lines 214-223 and, with a client at hand, the switch.
Receive(m) ==
  /\ msg[m].pc = "none"
  /\ m > 1 => msg[m - 1].pc # "none"
  /\ \E t \in MsgTypes :
       LET h == [msg[m] EXCEPT !.type = t,
                               !.symbol = IF t = "malformed" THEN "none" ELSE SymbolOf(m),
                               !.interval = IF t = "malformed" THEN "none" ELSE IntervalOf(m),
                               !.had = IF t = "malformed" THEN NoClient
                                       ELSE authenticatedClient,
                               !.during = {i \in LoginIds : Pending(login[i])}]
       IN IF t = "malformed"
          THEN \* JSON.parse throws: the outer catch answers.
               /\ msg' = [msg EXCEPT ![m] = Send(h, "error", Err("SyntaxError", <<>>, {}))]
               /\ UNCHANGED login
          ELSE IF NeedsLogin(authenticatedClient)
               THEN \* authenticatedClient = await loginToTradingView()
                    /\ login' = [login EXCEPT ![m] = StartLogin]
                    /\ msg' = [msg EXCEPT ![m] =
                                 Resume([h EXCEPT !.pc = "awaitLogin"], StartLogin)]
               ELSE /\ msg' = [msg EXCEPT ![m] = Dispatch(h, authenticatedClient)]
                    /\ UNCHANGED login
  /\ UNCHANGED <<authDef, credsSet, tradingViewClient, authenticatedClient, cap>>

\* getChartData settles (lines 228-237): the chart callback delivers the
\* data, or the provider call throws.  Or the provider reports a failure on
\* the chart session, or nothing at all: the callback given to setMarket is
\* not called, the promise of lines 83-118 has no reject path and no timer,
\* and the handler stays suspended.
FetchOutcomes == {"data", "AuthError", "ProviderError", "noCallback"}

\* A fetch whose failure also drops the current client.
FetchDoneInvalidating(m) ==
  /\ msg[m].pc = "awaitFetch"
  /\ msg[m].fetched = "none"
  /\ \E o \in FetchOutcomes, c \in Charts :
       /\ o # "data" => c = NoPeriods
       /\ msg' = [msg EXCEPT ![m] =
                    CASE o = "data" ->
                           SendData([@ EXCEPT !.fetched = o, !.chart = c],
                                    getChartData(msg[m].symbol, msg[m].interval, c))
                      [] o = "noCallback" -> [@ EXCEPT !.fetched = o]
                      [] OTHER -> OnFetchError([@ EXCEPT !.fetched = o], Err(o, <<>>, {}))]
       /\ authenticatedClient' = IF o = "data" THEN authenticatedClient ELSE NoClient
  /\ UNCHANGED <<authDef, credsSet, tradingViewClient, login, cap>>

FetchDone(m) ==
  /\ msg[m].pc = "awaitFetch"
  /\ msg[m].fetched = "none"
  /\ \E o \in FetchOutcomes, c \in Charts :
       /\ o # "data" => c = NoPeriods
       /\ msg' = [msg EXCEPT ![m] =
                    CASE o = "data" ->
                           SendData([@ EXCEPT !.fetched = o, !.chart = c],
                                    getChartData(msg[m].symbol, msg[m].interval, c))
                      [] o = "noCallback" -> [@ EXCEPT !.fetched = o]
                      [] OTHER -> OnFetchError([@ EXCEPT !.fetched = o], Err(o, <<>>, {}))]
  /\ UNCHANGED <<authDef, credsSet, tradingViewClient, authenticatedClient, login, cap>>

\* What the browser and the provider can do in a run of the service.
SpecWorld ==
  [shows |-> {[page |-> SignInUrl, jar |-> {}],
              [page |-> MainUrl,
               jar |-> {Cookie("sessionid", "abc"), Cookie("sessionid_sign", "xyz")}]},
   faults |-> {"email"},
   causes |-> {Rejected(MsgRobot), Rejected(MsgBot), RejectedNoMessage}]

\* Module load: the startup login is called before any connection is accepted.
Init ==
  /\ authDef = 2
  /\ credsSet \in {Provided(u, p) : u \in EnvValues, p \in EnvValues}
  /\ authenticatedClient = NoClient
  /\ tradingViewClient = null
  /\ login = [i \in LoginIds |-> IF i = 0 THEN StartLogin ELSE IdleLogin]
  /\ cap = [i \in LoginIds |-> IdleCap]
  /\ msg = [m \in MsgIds |-> IdleMsg]

Next ==
  \/ \E i \in LoginIds : ProviderAccept(i)
  \/ \E i \in LoginIds : ProviderReject(i, SpecWorld)
  \/ \E i \in LoginIds : CapStep(i, SpecWorld)
  \/ \E m \in MsgIds : Receive(m)
  \/ \E m \in MsgIds : FetchDone(m)

Spec == Init /\ [][Next]_vars

\* The service when every pending call of the provider and of the browser
\* driver gets its reply, and every message sent is delivered.
Fairness ==
  /\ \A i \in LoginIds : WF_vars(ProviderAccept(i) \/ ProviderReject(i, SpecWorld))
  /\ \A i \in LoginIds : WF_vars(CapStep(i, SpecWorld))
  /\ \A m \in MsgIds : WF_vars(FetchDone(m))

SpecFair == Spec /\ Fairness

(***************************************************************************)
(* The service with connections that close under a waiting handler.        *)
(***************************************************************************)
\* ws.on('close') (lines 260-262) logs and nothing else: the handler that
\* waits on a login or on a chart is not told.  What ws.send then does is
\* the library's choice.
Close(m) ==
  /\ msg[m].pc \in {"awaitLogin", "awaitFetch"}
  /\ msg[m].conn = "open"
  /\ \E b \in {"silent", "throws"} : msg' = [msg EXCEPT ![m].conn = b]
  /\ UNCHANGED <<authDef, credsSet, tradingViewClient, authenticatedClient, login, cap>>

\* What the browser and the provider do in these runs: a challenge is the
\* one cause of rejection, the browser login succeeds at its first poll
\* cycle or fails at the Email button.
HubWorld ==
  [shows |-> {[page |-> MainUrl,
               jar |-> {Cookie("sessionid", "abc"), Cookie("sessionid_sign", "xyz")}]},
   faults |-> {"email"},
   causes |-> {Rejected(MsgRobot)}]

InitHub == Init /\ credsSet

NextHub ==
  \/ \E i \in LoginIds : ProviderAccept(i)
  \/ \E i \in LoginIds : ProviderReject(i, HubWorld)
  \/ \E i \in LoginIds : CapStep(i, HubWorld)
  \/ \E m \in MsgIds : Receive(m)
  \/ \E m \in MsgIds : FetchDone(m)
  \/ \E m \in MsgIds : Close(m)

SpecHub == InitHub /\ [][NextHub]_vars

(***************************************************************************)
(* handleCaptchaLogin alone: one call, any browser behaviour.              *)
InitAuth ==
  /\ authDef \in {1, 2}
  /\ credsSet = TRUE
  /\ authenticatedClient = NoClient
  /\ tradingViewClient = null
  /\ login = [i \in LoginIds |-> IF i = 0 THEN [IdleLogin EXCEPT !.pc = "captcha"] ELSE IdleLogin]
  /\ cap = [i \in LoginIds |-> IF i = 0 THEN StartCap ELSE IdleCap]
  /\ msg = [m \in MsgIds |-> IdleMsg]

NextAuth ==
  \/ CapStep(0, AuthWorld)
  \/ CapCookies(0, AuthWorld)

SpecAuth == InitAuth /\ [][NextAuth]_vars

\* The same call when every browser call of the polling loop returns, and
\* the call is not left suspended for ever: each await is resumed.
PollingWorld == [AuthWorld EXCEPT !.faults = AllStages \ {"poll"}]

NextPolling ==
  \/ CapStep(0, PollingWorld)
  \/ CapCookies(0, PollingWorld)

SpecPolling == InitAuth /\ [][NextPolling]_vars /\ WF_vars(NextPolling)

(***************************************************************************)
(* The server of part_001, which logs in through TradingViewClient         *)
(* (tradingview-client.js).  Call 0 is the startup call of                 *)
(* initializeTradingViewClient (line 58), call m the one message m makes.  *)
(***************************************************************************)
\* initializeTradingViewClient up to its await (part_001 42-48) and
\* TradingViewClient.login up to its await (tradingview-client.js 17-18):
\* the wrapper is stored, and its client, before the login has resolved.
StartInitialize(i) == IF credsSet THEN Wrapper(NewClient(i)) ELSE tradingViewClient

\* await this.client.login(...) resolves: return this.client (lines 18-20).
OnStandardLogin(l, client) == [l EXCEPT !.pc = "resolved", !.client = client]

\* catch (standardLoginError): handleCaptchaLogin is called whatever the
\* error is (tradingview-client.js 21-25).
OnStandardLoginError(l, error) ==
  [l EXCEPT !.pc = "captcha", !.cause = error, !.browsers = @ + 1]

ClientAccept(i) ==
  /\ login[i].pc = "provider"
  /\ LET l == OnStandardLogin(login[i], DirectClient(i))
     IN /\ login' = [login EXCEPT ![i] = l]
        /\ tradingViewClient' =
             IF tradingViewClient.client = NewClient(i)
             THEN Wrapper(DirectClient(i)) ELSE tradingViewClient
        /\ msg' = [m \in MsgIds |-> IF m = i THEN Resume(msg[m], l) ELSE msg[m]]
  /\ UNCHANGED <<authDef, credsSet, authenticatedClient, cap>>

ClientReject(i, W) ==
  /\ login[i].pc = "provider"
  /\ \E error \in W.causes :
       /\ login' = [login EXCEPT ![i] = OnStandardLoginError(@, error)]
       /\ cap' = [cap EXCEPT ![i] = StartCap]
  /\ UNCHANGED <<authDef, credsSet, authenticatedClient, tradingViewClient, msg>>

\* A message arrives (part_001 67-118).  tradingViewClient is null only if
\* initializeTradingViewClient threw at its credentials check; a wrapper's
\* client is set from its construction on, so getChartData (line 42 of
\* tradingview-client.js) never calls login.
ReceiveClient(m) ==
  /\ msg[m].pc = "none"
  /\ m > 1 => msg[m - 1].pc # "none"
  /\ \E t \in MsgTypes :
       LET h == [msg[m] EXCEPT !.type = t,
                               !.symbol = IF t = "malformed" THEN "none" ELSE SymbolOf(m),
                               !.interval = IF t = "malformed" THEN "none" ELSE IntervalOf(m),
                               !.had = IF t = "malformed" THEN NoClient
                                       ELSE tradingViewClient.client,
                               !.during = {i \in LoginIds : Pending(login[i])}]
       IN IF t = "malformed"
          THEN /\ msg' = [msg EXCEPT ![m] = Send(h, "error", Err("SyntaxError", <<>>, {}))]
               /\ UNCHANGED <<login, tradingViewClient>>
          ELSE IF ~tradingViewClient.set
               THEN \* await initializeTradingViewClient()
                    /\ tradingViewClient' = StartInitialize(m)
                    /\ login' = [login EXCEPT ![m] = StartLogin]
                    /\ msg' = [msg EXCEPT ![m] =
                                 Resume([h EXCEPT !.pc = "awaitLogin"], StartLogin)]
               ELSE /\ msg' = [msg EXCEPT ![m] = Dispatch(h, tradingViewClient.client)]
                    /\ UNCHANGED <<login, tradingViewClient>>
  /\ UNCHANGED <<authDef, credsSet, authenticatedClient, cap>>

InitClient ==
  /\ authDef = 2
  /\ credsSet \in {Provided(u, p) : u \in EnvValues, p \in EnvValues}
  /\ authenticatedClient = NoClient
  /\ tradingViewClient = IF credsSet THEN Wrapper(NewClient(0)) ELSE null
  /\ login = [i \in LoginIds |-> IF i = 0 THEN StartLogin ELSE IdleLogin]
  /\ cap = [i \in LoginIds |-> IdleCap]
  /\ msg = [m \in MsgIds |-> IdleMsg]

NextClient ==
  \/ \E i \in LoginIds : ClientAccept(i)
  \/ \E i \in LoginIds : ClientReject(i, SpecWorld)
  \/ \E i \in LoginIds : CapStep(i, SpecWorld)
  \/ \E m \in MsgIds : ReceiveClient(m)
  \/ \E m \in MsgIds : FetchDone(m)

SpecClient == InitClient /\ [][NextClient]_vars

(***************************************************************************)
(* Properties.                                                             *)
(***************************************************************************)
isChallengeCause(e) == e.hasMessage /\ isChallenge(e.message)
AbcXyzJar == {Cookie("sessionid", "abc"), Cookie("sessionid_sign", "xyz")}
AbcXyz == [session |-> "abc", signature |-> "xyz"]

\* C1: at most one login attempt is in flight at any instant; a message that
\* arrives while no session exists and a login is running waits for that
\* login and starts none of its own.
C1_OneLoginInFlight ==
  Cardinality({i \in LoginIds : Pending(login[i])}) <= 1

\* C2: the polling loop returns a session only when one observation shows
\* both cookies and a URL off the sign-in page: the URL the cycle read is the
\* page the browser showed when the cookies were read, and it is not the
\* sign-in page.
C2_SuccessInOneObservation ==
  (cap[0].pc = "quit" /\ cap[0].outcome = "session") =>
    /\ find(cap[0].seen.jar, "sessionid") # undefined
    /\ find(cap[0].seen.jar, "sessionid_sign") # undefined
    /\ ~includesSignInPath(cap[0].seen.page)
    /\ cap[0].seen.page = cap[0].page

\* C3: a heartbeat message never starts a login and never waits for one: it
\* is answered with a heartbeat envelope as soon as it is received.
C3_HeartbeatNeedsNoLogin ==
  \A m \in MsgIds :
    msg[m].type = "heartbeat" =>
      /\ login[m].pc = "idle"
      /\ msg[m].pc = "done"
      /\ msg[m].reply = "heartbeat"

\* C4: a call of handleCaptchaLogin that has built a driver quits it exactly
\* once before the call completes, on every exit path; a call that built no
\* driver quits nothing; nothing is quit while the call still uses the driver.
C4_DriverReleasedOnce ==
  /\ cap[0].built <= 1
  /\ cap[0].pc = "done" => (cap[0].quits = cap[0].built /\ ~cap[0].driver)
  /\ cap[0].pc # "done" => cap[0].quits = 0
  /\ cap[0].driver <=> (cap[0].built = 1 /\ cap[0].quits = 0)

\* A call that timed out in the polling loop has completed with its one
\* driver quit once.
C4_Witness ==
  /\ cap[0].pc = "done"
  /\ cap[0].outcome = "error"
  /\ cap[0].err.kind = "LoginTimeout"
  /\ cap[0].built = 1
  /\ cap[0].quits = 1

\* C5: a login rejected with a challenge-class reason calls handleCaptchaLogin
\* exactly once, and while that browser login has not finished and been
\* consumed the caller of the login is still waiting; once the login has
\* settled, what it settled with came from the browser login.
C5_BrowserLoginOnceBeforeRelease ==
  \A i \in LoginIds :
    /\ login[i].browsers <= 1
    /\ isChallengeCause(login[i].cause) =>
         /\ login[i].browsers = 1
         /\ login[i].pc \in {"captcha", "resolved", "rejected"}
         /\ login[i].pc = "resolved" => login[i].client.via = "browser"
         /\ login[i].pc = "rejected" => login[i].err # login[i].cause
    /\ cap[i].pc \notin {"idle", "done"} =>
         /\ login[i].pc = "captcha"
         /\ i \in MsgIds => (msg[i].pc = "awaitLogin" /\ msg[i].reply = "none")

\* A message's login was challenged, went through the browser, and the
\* message was answered with data afterwards.
C5_Witness ==
  \E m \in MsgIds :
    /\ isChallengeCause(login[m].cause)
    /\ login[m].browsers = 1
    /\ login[m].pc = "resolved"
    /\ msg[m].reply = "data"

\* C6: the browser login is started if and only if the rejection message
\* contains 'captcha' or 'robot' (case-insensitive); every other rejection
\* starts no browser login and fails the login with the original cause.
C6_ClassifiedByMessage ==
  \A i \in LoginIds :
    login[i].cause # NoError =>
      /\ login[i].browsers >= 1 <=> isChallengeCause(login[i].cause)
      /\ ~isChallengeCause(login[i].cause) =>
           (login[i].pc = "rejected" /\ login[i].err = login[i].cause)

\* C7: a fetch that ended with the provider's authentication error has
\* invalidated the session it used: that client is no longer the current one.
C7_AuthErrorInvalidates ==
  \A m \in MsgIds :
    (msg[m].pc = "done" /\ msg[m].err.kind = "AuthError") =>
      authenticatedClient # msg[m].used

\* C8: when a browser login has timed out, every fetch request that arrived
\* while that login was running and has been answered was answered with the
\* error envelope carrying that timeout, never with data.
C8_TimeoutReachesWaiters ==
  \A i \in LoginIds, m \in MsgIds :
    ( /\ login[i].pc = "rejected"
      /\ login[i].err.kind = "LoginTimeout"
      /\ i \in msg[m].during
      /\ msg[m].type = "get_indicators"
      /\ msg[m].pc = "done" ) =>
        (msg[m].reply = "error" /\ msg[m].err = login[i].err)

\* C9, as stated: a rejection with the message "bot detected" starts the
\* browser login.
C9_BotDetectedStartsBrowser ==
  \A i \in LoginIds :
    login[i].cause = Rejected(MsgBot) => login[i].browsers = 1

\* C9, amended: a rejection with the message "Robot detected" starts the
\* browser login; a second poll cycle that sees sessionid=abc and
\* sessionid_sign=xyz on a page off the sign-in URL returns them, and the
\* login resolves with a client of token abc and signature xyz.  A rejection
\* with "bot detected" starts no browser login and fails with that rejection.
C9_RobotDetectedScenario ==
  \A i \in LoginIds :
    /\ login[i].cause = Rejected(MsgRobot) =>
         /\ login[i].browsers = 1
         /\ ( /\ cap[i].seen.cycle = 2
              /\ cap[i].seen.jar = AbcXyzJar
              /\ ~includesSignInPath(cap[i].seen.page) ) =>
                (cap[i].outcome = "session" /\ cap[i].cred = AbcXyz)
         /\ login[i].pc = "resolved" =>
              /\ login[i].client.token = "abc"
              /\ login[i].client.signature = "xyz"
              /\ authenticatedClient # NoClient
    /\ login[i].cause = Rejected(MsgBot) =>
         /\ login[i].browsers = 0
         /\ cap[i].pc = "idle"
         /\ login[i].pc = "rejected"
         /\ login[i].err = Rejected(MsgBot)

\* The second poll cycle of a login rejected with "Robot detected" has just
\* seen both cookies and returned them.
C9_Witness ==
  \E i \in LoginIds :
    /\ login[i].cause = Rejected(MsgRobot)
    /\ cap[i].pc = "quit"
    /\ cap[i].seen.cycle = 2
    /\ cap[i].seen.jar = AbcXyzJar
    /\ cap[i].cred = AbcXyz

\* C10: a login the provider accepts directly resolves with a client, and
\* handleCaptchaLogin is not called during it: no browser is launched.
C10_DirectLoginNoBrowser ==
  \A i \in LoginIds :
    (credsSet /\ login[i].cause = NoError /\ login[i].pc \notin {"idle", "provider"}) =>
      /\ login[i].pc = "resolved"
      /\ login[i].client = DirectClient(i)
      /\ login[i].browsers = 0
      /\ cap[i].pc = "idle"
      /\ authenticatedClient # NoClient

\* A message's login was accepted directly and the message answered with data.
C10_Witness ==
  \E m \in MsgIds :
    /\ login[m].pc = "resolved"
    /\ login[m].cause = NoError
    /\ login[m].client = DirectClient(m)
    /\ msg[m].reply = "data"

\* C11: a handler that waited on a login call goes on to its fetch with the
\* client that very call produced, whatever other login calls have produced
\* in the meantime.
C11_ReleasedWithOwnSession ==
  \A m \in MsgIds :
    (login[m].pc # "idle" /\ msg[m].type = "get_indicators") =>
      /\ msg[m].pc \in {"awaitFetch", "done"} <=> login[m].pc \in {"resolved", "rejected"}
      /\ login[m].pc = "resolved" =>
           (msg[m].used = login[m].client /\ msg[m].used.by = m)
      /\ login[m].pc # "resolved" => msg[m].used = NoClient

\* A handler fetches with the client of the call it waited on while the
\* current client is one that another call produced.
C11_Witness ==
  \E m \in MsgIds :
    /\ msg[m].pc = "awaitFetch"
    /\ login[m].pc = "resolved"
    /\ msg[m].used = login[m].client
    /\ authenticatedClient # NoClient
    /\ authenticatedClient # msg[m].used

\* C12: when a login call is rejected (a failure of the provider login or of
\* the browser login, its timeout included), the handler that waited on the
\* call is answered with an error envelope carrying that very error, and it
\* makes no further login call: it has ended, and the call stays rejected.
C12_FailureReachesWaiter ==
  \A m \in MsgIds :
    login[m].pc = "rejected" =>
      /\ msg[m].pc = "done"
      /\ msg[m].reply = "error"
      /\ msg[m].err = login[m].err
      /\ msg[m].used = NoClient

\* A handler was answered with the timeout of the browser login it waited on.
C12_Witness ==
  \E m \in MsgIds :
    /\ login[m].pc = "rejected"
    /\ login[m].err.kind = "LoginTimeout"
    /\ msg[m].reply = "error"
    /\ msg[m].err = login[m].err

\* C13: requests that wait for a login are released in arrival order: of two
\* requests that arrived while the same login call was running and that both
\* had to wait, the later one is not released (taken to its switch or
\* answered with the error) while the earlier one still waits.
C13_ReleasedInArrivalOrder ==
  \A m1, m2 \in MsgIds :
    ( /\ m1 < m2
      /\ msg[m1].during \cap msg[m2].during # {}
      /\ login[m1].pc # "idle"
      /\ login[m2].pc # "idle"
      /\ msg[m2].pc # "awaitLogin" ) =>
        msg[m1].pc # "awaitLogin"

\* C14: after a login attempt has failed and while no login has succeeded, a
\* fetch request that arrives starts a login attempt of its own, and no
\* provider fetch is made for it before that attempt has succeeded.
C14_NewLoginAfterFailure ==
  \A m \in MsgIds :
    ( /\ login[0].pc = "rejected"
      /\ \A i \in LoginIds : login[i].pc # "resolved"
      /\ msg[m].type = "get_indicators"
      /\ msg[m].during = {} ) =>
        (login[m].pc # "idle" /\ msg[m].used = NoClient)

\* C15: a session the provider has reported as unauthenticated is never used
\* again: no handler is given, for a new chart request, a client with which
\* an earlier request has ended in the provider's authentication error.
C15_StaleSessionNotReused ==
  [][\A m \in MsgIds :
       (msg[m].pc # "awaitFetch" /\ msg'[m].pc = "awaitFetch") =>
         ~\E k \in MsgIds : /\ msg[k].pc = "done"
                            /\ msg[k].err.kind = "AuthError"
                            /\ msg[k].used = msg'[m].used]_vars

\* C16: with the username or the password missing the process fails at
\* startup: no message is ever handled.
C16_NoServiceWithoutCredentials ==
  ~credsSet => \A m \in MsgIds : msg[m].pc = "none"

\* C17: a well-formed message of unknown type is answered with the 'Unknown
\* request type' error envelope whatever the state of the session and of the
\* logins, as soon as it is received.
C17_UnknownTypeAnswered ==
  \A m \in MsgIds :
    (credsSet /\ msg[m].type = "unknown") =>
      /\ msg[m].pc = "done"
      /\ msg[m].reply = "error"
      /\ msg[m].err.kind = "UnknownRequestType"

\* C18: a message that cannot be parsed is answered at once with an error
\* envelope (the parse error); nothing else changes, and the handler of the
\* next message on the connection can run.
C18_MalformedAnswered ==
  \A m \in MsgIds :
    msg[m].type = "malformed" =>
      /\ msg[m].pc = "done"
      /\ msg[m].reply = "error"
      /\ msg[m].err.kind = "SyntaxError"
      /\ (m < MaxMsgs /\ msg[m + 1].pc = "none") => ENABLED Receive(m + 1)

\* After a message that could not be parsed, a later message was answered
\* with data.
C18_Witness ==
  \E m \in MsgIds :
    /\ m < MaxMsgs
    /\ msg[m].type = "malformed"
    /\ msg[m].reply = "error"
    /\ msg[m + 1].reply = "data"

C20_FetchErrorKeepsSession ==
  [][\A m \in MsgIds :
       ( /\ msg[m].pc = "awaitFetch"
         /\ msg'[m].pc = "done"
         /\ msg'[m].err.kind = "ProviderError" ) =>
           /\ authenticatedClient' = authenticatedClient
           /\ login' = login
           /\ cap' = cap]_vars

\* A chart request has failed with a provider error and the client it used
\* is still the current one.
C20_Witness ==
  \E m \in MsgIds :
    /\ msg[m].pc = "done"
    /\ msg[m].err.kind = "ProviderError"
    /\ authenticatedClient # NoClient
    /\ authenticatedClient = msg[m].used

\* C21: a chart request made with a client at hand and on which the provider
\* succeeds is answered with exactly one envelope, of type market_update,
\* that carries the instrument and the timeframe of the request and the bars
\* the provider delivered (none if it delivered none).
C21_FetchAnsweredWithMarketUpdate ==
  \A m \in MsgIds :
    msg[m].fetched = "data" =>
      /\ msg[m].used # NoClient
      /\ msg[m].pc = "done"
      /\ msg[m].sent = 1
      /\ msg[m].reply = "data"
      /\ msg[m].data.type = "market_update"
      /\ msg[m].data.symbol = SymbolOf(m)
      /\ msg[m].data.interval = IntervalOf(m)
      /\ msg[m].data.prices = (IF msg[m].chart.defined THEN msg[m].chart.periods ELSE <<>>)

\* Two chart requests for different instruments and timeframes have both
\* been answered, one of them with a bar.
C21_Witness ==
  \E m, k \in MsgIds :
    /\ m # k
    /\ msg[m].fetched = "data"
    /\ msg[k].fetched = "data"
    /\ msg[m].data.symbol # msg[k].data.symbol
    /\ msg[m].data.prices = <<Bar>>

\* C22: a chart request that arrives while a client is stored goes on to its
\* fetch at once, with that client, and neither the provider login nor the
\* browser login is called for it.
C22_ExistingSessionUsedAtOnce ==
  \A m \in MsgIds :
    (msg[m].type = "get_indicators" /\ msg[m].had # NoClient) =>
      /\ msg[m].pc \in {"awaitFetch", "done"}
      /\ msg[m].used = msg[m].had
      /\ login[m] = IdleLogin
      /\ cap[m] = IdleCap

\* A chart request arrived with a client stored and waits for its data, its
\* own login call never made.
C22_Witness ==
  \E m \in MsgIds :
    /\ msg[m].had # NoClient
    /\ msg[m].pc = "awaitFetch"
    /\ msg[m].used = msg[m].had
    /\ login[m].pc = "idle"

\* The success test of the running definition on what a cycle has read.
SuccessSeen(c) ==
  IF authDef = 2 THEN Success2(c.seen.page, c.seen.jar)
  ELSE Redirected1(c.seen.page) /\ Success1(c.seen.jar)

\* C23: when every browser call of the polling loop returns, the loop ends:
\* the call always completes; it leaves the loop with a session only from a
\* cycle whose reads passed the success test, and otherwise with the timeout
\* failure, thrown once 300000 ms have passed since polling started.
C23_PollingEnds ==
  /\ [](cap[0].pc = "quit" /\ cap[0].polls >= 1 =>
          /\ cap[0].outcome = "session" =>
               (SuccessSeen(cap[0]) /\ cap[0].elapsed < maxWaitTime + RedirectSleep)
          /\ cap[0].outcome # "session" =>
               /\ cap[0].outcome = "error"
               /\ cap[0].err.kind = "LoginTimeout"
               /\ cap[0].elapsed >= maxWaitTime
               /\ cap[0].cred = NoCred)
  /\ <>(cap[0].pc = "done")

\* The loop has run out of time and thrown the timeout failure.
C23_Witness ==
  /\ cap[0].pc = "quit"
  /\ cap[0].polls >= 1
  /\ cap[0].err.kind = "LoginTimeout"
  /\ cap[0].elapsed >= maxWaitTime

\* C24: every chart request is eventually answered, with a market_update
\* envelope or with an error envelope; in particular one whose handler has a
\* client and has called getChartData, whatever the provider does then.
C24_FetchEventuallyAnswered ==
  \A m \in MsgIds :
    (msg[m].type = "get_indicators" /\ msg[m].pc = "awaitFetch") ~>
      (msg[m].pc = "done" /\ msg[m].reply \in {"data", "error"})

\* C25: at most one browser is up at any instant: no two calls of
\* handleCaptchaLogin hold a driver that is built and not yet quit.
C25_OneBrowserLive ==
  Cardinality({i \in LoginIds : cap[i].driver}) <= 1

\* C26: handleCaptchaLogin returns a session only from cookies with
\* non-empty values: neither field of what it returns is the empty string.
C26_NoEmptyCredentials ==
  cap[0].outcome = "session" =>
    (cap[0].cred.session # "" /\ cap[0].cred.signature # "")

\* The non-empty values a cookie of the browser can have.
SecretValues == {c.value : c \in SessionIdCookies \cup SignCookies} \ {""}

C28_ClosedConnectionOnlyDiscards ==
  /\ [](\A m \in MsgIds :
          msg[m].conn # "open" =>
            /\ msg[m].reply = "none"
            /\ msg[m].sent = 0
            /\ msg[m].pc = "done" => msg[m].lost # "none"
            /\ (msg[m].pc = "done" /\ m < MaxMsgs /\ msg[m + 1].pc = "none") =>
                 ENABLED Receive(m + 1))
  /\ [][\A m \in MsgIds :
          msg[m].conn # "open" =>
            /\ ( /\ msg[m].pc = "awaitFetch"
                 /\ msg[m].fetched = "none"
                 /\ msg'[m].fetched \notin {"none", "noCallback"} ) =>
                   msg'[m].pc = "done"
            /\ ( /\ msg[m].pc = "awaitLogin"
                 /\ login'[m].pc \in {"resolved", "rejected"} ) =>
                   msg'[m].pc \in {"awaitFetch", "done"}
            /\ (msg[m].pc # "done" /\ msg'[m].pc = "done") =>
                 /\ \A k \in MsgIds \ {m} : msg'[k] = msg[k]
                 /\ \A i \in LoginIds \ {m} : login'[i] = login[i] /\ cap'[i] = cap[i]
                 /\ \/ authenticatedClient' = authenticatedClient
                    \/ /\ msg[m].pc = "awaitLogin"
                       /\ authenticatedClient' = login'[m].client]_vars

\* The chart data of a request was lost on its closed connection, with a
\* ws.send that throws, and a later request was answered with data.
C28_Witness ==
  \E m, k \in MsgIds :
    /\ m < k
    /\ msg[m].conn = "throws"
    /\ msg[m].pc = "done"
    /\ msg[m].lost = "data"
    /\ msg[m].unhandled
    /\ msg[k].reply = "data"

\* The steps of the browser login, in their order.
StepOrder ==
  <<"Launch", "DismissConsent", "SelectEmailFlow", "FillCredentials", "Submit",
    "PollForSession", "Teardown">>

\* The steps taken before the teardown.
BeforeTeardown(steps) ==
  IF steps # <<>> /\ steps[Len(steps)] = "Teardown"
  THEN SubSeq(steps, 1, Len(steps) - 1) ELSE steps

\* C29: the steps a call of handleCaptchaLogin has taken are a beginning of
\* Launch, DismissConsent, SelectEmailFlow, FillCredentials, Submit,
\* PollForSession, followed by Teardown or not: the loop polls only after the
\* submit click, the credentials are entered only after the Email click, and
\* a call that has launched a browser is over only after Teardown, its last
\* step.
C29_StepsInOrder ==
  LET steps == cap[0].steps
      body == BeforeTeardown(steps)
  IN /\ Len(body) <= 6
     /\ body = SubSeq(StepOrder, 1, Len(body))
     /\ cap[0].pc \in {"poll", "cookies"} =>
          \E j \in 1..Len(steps) : steps[j] = "Submit"
     /\ cap[0].pc = "submit" =>
          /\ steps[Len(steps)] = "FillCredentials"
          /\ \E j \in 1..Len(steps) : steps[j] = "SelectEmailFlow"
     /\ cap[0].pc = "done" =>
          \/ steps = <<>> /\ cap[0].built = 0
          \/ steps[Len(steps)] = "Teardown"
     /\ (steps # <<>> /\ steps[Len(steps)] = "Teardown") => cap[0].pc = "done"

\* A call has gone through all seven steps and returned a session.
C29_Witness ==
  /\ cap[0].pc = "done"
  /\ cap[0].outcome = "session"
  /\ cap[0].steps = StepOrder

\* C30: the consent step never fails the call.  Whether the consent button
\* was found and clicked or not, the step leaves the call at the Email
\* button with no error and nothing else changed: but for the record of the
\* click, the call is in the state it would be in had the click been made.
\* An element that is not found fails the call only after the consent step.
C30_ConsentIsOptional ==
  /\ [][cap[0].pc = "consent" =>
          /\ cap'[0].pc = "email"
          /\ cap'[0].outcome = "none"
          /\ cap'[0].err = NoError
          /\ [cap'[0] EXCEPT !.consent = TRUE] =
               Took([cap[0] EXCEPT !.pc = "email", !.consent = TRUE], "DismissConsent")]_vars
  /\ [](cap[0].err.kind = "NotFound" =>
          \E j \in 1..Len(cap[0].steps) : cap[0].steps[j] = "DismissConsent")

\* A call whose consent button could not be clicked has returned a session.
C30_Witness ==
  /\ cap[0].pc = "done"
  /\ ~cap[0].consent
  /\ cap[0].outcome = "session"
  /\ cap[0].steps = StepOrder

\* The call has taken the step named.
HasTaken(c, step) == \E j \in 1..Len(c.steps) : c.steps[j] = step

\* C31: when the Email button is not found, the call fails: no credential is
\* entered, the submit button is not clicked, the polling loop is not
\* entered, and the browser is quit before the call is over.
C31_EmailNotFoundFails ==
  (cap[0].err.kind = "NotFound" /\ ~HasTaken(cap[0], "SelectEmailFlow")) =>
    /\ cap[0].pc \in {"quit", "done"}
    /\ cap[0].outcome = "error"
    /\ cap[0].cred = NoCred
    /\ ~HasTaken(cap[0], "FillCredentials")
    /\ ~HasTaken(cap[0], "Submit")
    /\ ~HasTaken(cap[0], "PollForSession")
    /\ cap[0].polls = 0
    /\ cap[0].pc = "done" => (~cap[0].driver /\ cap[0].quits = 1)

\* The Email button was not found and the call is over, its browser quit.
C31_Witness ==
  /\ cap[0].pc = "done"
  /\ cap[0].err.kind = "NotFound"
  /\ cap[0].steps = <<"Launch", "DismissConsent", "Teardown">>
  /\ cap[0].quits = 1
  /\ ~cap[0].driver

\* C32: the client handed to a chart request is one whose login has succeeded
\* already, by the provider login or by the browser login.
C32_FetchOnlyAfterLogin ==
  \A m \in MsgIds :
    msg[m].used # NoClient => msg[m].used.via \in {"direct", "browser"}

\* C33: a message calls loginToTradingView only if it found
\* authenticatedClient null; authenticatedClient is null or the client that a
\* resolved login call produced; and once a login call has resolved it is
\* not null again.
C33_ClientOnlyFromLogin ==
  /\ \A m \in MsgIds : login[m].pc # "idle" => msg[m].had = NoClient
  /\ authenticatedClient # NoClient =>
       \E i \in LoginIds :
         /\ login[i].pc = "resolved"
         /\ authenticatedClient = login[i].client
         /\ authenticatedClient.via \in {"direct", "browser"}
  /\ (\E i \in LoginIds : login[i].pc = "resolved") => authenticatedClient # NoClient

\* After a login call has resolved another one was rejected, and the client
\* of the first is the current one.
C33_Witness ==
  \E i, k \in LoginIds :
    /\ login[i].pc = "resolved"
    /\ login[k].pc = "rejected"
    /\ login[k].err.kind = "NotFound"
    /\ authenticatedClient = login[i].client

\* C34: once the provider login of a call of loginToTradingView has settled
\* and the browser login, if one was started, has settled too, the promise of
\* the call is resolved or rejected, whatever the provider rejected with.
C34_LoginSettles ==
  \A i \in LoginIds :
    (login[i].pc \notin {"idle", "provider"} /\ cap[i].pc \in {"idle", "done"}) =>
      login[i].pc \in {"resolved", "rejected"}

\* C35: with the username or the password absent or empty, every call of
\* loginToTradingView is rejected with the 'not provided' error as soon as it
\* is made: the provider login is not called, no browser is launched,
\* authenticatedClient stays as it was (null), and the handler that made the
\* call is answered with that error.
C35_NoCredentialsNoLogin ==
  ~credsSet =>
    /\ authenticatedClient = NoClient
    /\ \A i \in LoginIds :
         /\ login[i].pc \in {"idle", "rejected"}
         /\ login[i].pc = "rejected" =>
              (login[i].err.kind = "NotProvided" /\ login[i].cause = NoError)
         /\ login[i].browsers = 0
         /\ cap[i] = IdleCap
    /\ \A m \in MsgIds :
         login[m].pc = "rejected" =>
           (msg[m].pc = "done" /\ msg[m].err.kind = "NotProvided")

\* Without credentials a chart request has made its own call and was
\* answered with the 'not provided' error.
C35_Witness ==
  \E m \in MsgIds :
    /\ ~credsSet
    /\ msg[m].type = "get_indicators"
    /\ login[m].pc = "rejected"
    /\ msg[m].reply = "error"
    /\ msg[m].err.kind = "NotProvided"

\* C36: the handling of a message that cannot be parsed calls no login and
\* changes nothing of the broker: authenticatedClient, the login calls and
\* the browser logins are after it what they were before, and so are the
\* other handlers.
C36_MalformedChangesNothing ==
  [][\A m \in MsgIds :
       (msg[m].pc = "none" /\ msg'[m].type = "malformed") =>
         /\ msg'[m].pc = "done"
         /\ authenticatedClient' = authenticatedClient
         /\ login' = login
         /\ cap' = cap
         /\ \A k \in MsgIds \ {m} : msg'[k] = msg[k]]_vars

\* A message that could not be parsed was handled with no client stored and
\* the startup login still pending: it has called no login.
C36_Witness ==
  \E m \in MsgIds :
    /\ msg[m].type = "malformed"
    /\ msg[m].pc = "done"
    /\ authenticatedClient = NoClient
    /\ login[0].pc = "provider"
    /\ login[m].pc = "idle"

\* C37: a handler on an open connection sends one envelope, never two, and
\* never none: once the login call it made and the chart request it made are
\* no longer pending at the provider or in the browser, it has sent exactly
\* one envelope, a result or an error.
C37_ExactlyOneEnvelope ==
  \A m \in MsgIds :
    /\ msg[m].sent <= 1
    /\ ( /\ msg[m].pc # "none"
         /\ msg[m].conn = "open"
         /\ ~Pending(login[m])
         /\ ~(msg[m].pc = "awaitFetch" /\ msg[m].fetched = "none") ) =>
           /\ msg[m].sent = 1
           /\ msg[m].reply \in {"data", "error", "heartbeat"}

\* C38: whether driver.quit() throws or not, the call of handleCaptchaLogin
\* settles with the outcome it had when it reached the finally block: the
\* session it found, or its original error; and that is what its caller is
\* given.
C38_QuitFailureKeepsOutcome ==
  [][cap[0].pc = "quit" =>
       /\ cap'[0].pc = "done"
       /\ cap'[0].outcome = cap[0].outcome
       /\ cap'[0].cred = cap[0].cred
       /\ cap'[0].err = cap[0].err
       /\ cap[0].outcome = "session" =>
            /\ login'[0].pc = "resolved"
            /\ login'[0].client.token = cap[0].cred.session
            /\ login'[0].client.signature = cap[0].cred.signature
       /\ cap[0].outcome = "error" =>
            (login'[0].pc = "rejected" /\ login'[0].err = cap[0].err)]_vars

\* driver.quit() has thrown and the call has returned the session it found.
C38_Witness ==
  /\ cap[0].pc = "done"
  /\ cap[0].quitThrew
  /\ cap[0].outcome = "session"
  /\ cap[0].cred.session = "abc"
  /\ login[0].pc = "resolved"

====
